---- MODULE Spec2Model ----
(***************************************************************************)
(* Website monitor with exponential backoff (src/unnamed/part_000).        *)
(* One sequential process: main's monitoring loop, which calls             *)
(* checkWebsiteDown (the prober), executeELF (the remediation action) and  *)
(* time.Sleep.  Every blocking call is one step of the model.  The monitor *)
(* without backoff (src/main.go) is modelled as a function of the attempt  *)
(* results of one cycle, for the comparison of the two.                    *)
(***************************************************************************)
EXTENDS Integers, Sequences, FiniteSets, TLC

\* ------------------------------------------------------------------------
\* Bounds of the model
\* ------------------------------------------------------------------------
MaxCycles == 4
MaxRetries == 3

\* ------------------------------------------------------------------------
\* Command line flags (part_000:15-25).  flag.Int and flag.Float64 accept
\* any value and main validates only -url and -elf, so non-positive retry
\* counts, negative delays, factors below 1 and initial > maximum all reach
\* the loop.  A factor is the pair <<numerator, denominator>>.
\* ------------------------------------------------------------------------
DefaultInterval == 60
DefaultRetries == 3
DefaultInitialBackoff == 60
DefaultBackoffFactor == <<2, 1>>

IntervalValues == {DefaultInterval}
RetriesValues == {-1} \cup (0..MaxRetries)
InitialBackoffValues == {-3, 1, 5, DefaultInitialBackoff}
MaxBackoffValues == {8, 60, 300}
BackoffFactorValues == {<<1, 2>>, <<1, 1>>, <<3, 2>>, DefaultBackoffFactor}

Flags ==
    [interval : IntervalValues,
     retries : RetriesValues,
     verbose : BOOLEAN,
     initialBackoff : InitialBackoffValues,
     maxBackoff : MaxBackoffValues,
     backoffFactor : BackoffFactorValues]

\* ------------------------------------------------------------------------
\* Results of one client.Get (part_000:104): a transport error, or a
\* response with a status code.
\* ------------------------------------------------------------------------
StatusCodes == {200, 399, 400}
TransportError == [err |-> TRUE, status |-> 0]
AttemptResults ==
    {TransportError} \cup {[err |-> FALSE, status |-> s] : s \in StatusCodes}

\* Results of cmd.CombinedOutput (part_000:144).  os/exec reports a launch
\* failure and a non-zero exit status alike through a non-nil error.
ElfOutcomes == {"launch_failure", "exit_zero", "exit_nonzero"}

RetryDelay == 2

VARIABLES
    cfg,                  \* the parsed flags, immutable after startup
    pc,                   \* position of main: probe, checked, executed, sleeping
    i,                    \* loop index of checkWebsiteDown
    siteDown,             \* return value of checkWebsiteDown
    consecutiveFailures,  \* part_000:58
    currentBackoff,       \* part_000:59
    elfOutcome,           \* how this cycle's executeELF ended, or "none"
    attemptLog,           \* results of the HTTP attempts of this cycle
    retrySleeps,          \* durations of the inter-retry sleeps of this cycle
    logs,                 \* log and stdout events of this cycle
    outcomes,             \* siteDown of every cycle so far
    sleeps,               \* per cycle, the inter-cycle sleeps it performed
    elfRuns               \* number of executeELF calls so far

vars == <<cfg, pc, i, siteDown, consecutiveFailures, currentBackoff, elfOutcome,
          attemptLog, retrySleeps, logs, outcomes, sleeps, elfRuns>>

\* ------------------------------------------------------------------------
\* Pure pieces of the code
\* ------------------------------------------------------------------------

\* Variant: the upper status bound is tested with > instead of >=.
AttemptFails_Above400(res) ==
    \/ res.err
    \/ ~res.err /\ (res.status < 200 \/ res.status > 400)

\* part_000:106 and :120 - an attempt fails on err != nil or on a status
\* code < 200 or >= 400.
AttemptFails(res) ==
    \/ res.err
    \/ ~res.err /\ (res.status < 200 \/ res.status >= 400)

\* Variant: the test for a further attempt is "i < retries".
RetryAllowed_OffByOne(idx, retries) == idx < retries

\* part_000:111 and :125 - "if i < retries-1": another attempt is allowed.
RetryAllowed(idx, retries) == idx < retries - 1

\* Variant: the factor is converted to int before the multiplication.
TruncMul_IntFactor(delay, factor) == delay * (factor[1] \div factor[2])

\* Variant: the product is rounded to the nearest integer.
TruncMul_Rounds(delay, factor) ==
    (2 * delay * factor[1] + factor[2]) \div (2 * factor[2])

\* part_000:73 - int(float64(currentBackoff) * factor): the conversion to
\* int truncates toward zero.
TruncMul(delay, factor) ==
    LET p == delay * factor[1]
    IN  IF p >= 0 THEN p \div factor[2] ELSE -((-p) \div factor[2])

\* Variant: the cap at the maximum is missing.
NewBackoff_NoCap(delay, factor, maximum) == TruncMul(delay, factor)

\* part_000:73-80 - the grown delay, capped at the maximum.
NewBackoff(delay, factor, maximum) ==
    LET newBackoff == TruncMul(delay, factor)
    IN  IF newBackoff > maximum THEN maximum ELSE newBackoff

\* part_000:146 - err != nil after cmd.CombinedOutput.
ElfError(outcome) == outcome # "exit_zero"

\* part_000:146-153 - what executeELF writes.
ElfLogs(outcome) ==
    IF ElfError(outcome) THEN <<"elf_failed">> ELSE <<"elf_output">>

\* ------------------------------------------------------------------------
\* The monitor without backoff (main.go).  Its loop (main.go:54-66) carries
\* no variable from one cycle to the next, so a cycle is a function of the
\* attempt results it is fed.
\* ------------------------------------------------------------------------

\* Variant: only a transport error counts as a failed attempt.
BasicAttemptFails_ErrOnly(res) == res.err

\* main.go:75 and :89.
BasicAttemptFails(res) ==
    \/ res.err
    \/ ~res.err /\ (res.status < 200 \/ res.status >= 400)

\* main.go:80 and :94.
BasicRetryAllowed(idx, retries) == idx < retries - 1

\* main.go:71-106 - checkWebsiteDown from iteration idx on, reading the
\* result of attempt idx+1 from feed; starved when the loop asks for a
\* result beyond the end of feed.
RECURSIVE BasicCheckWebsiteDown(_, _, _)
BasicCheckWebsiteDown(feed, idx, retries) ==
    IF ~(idx < retries)
    THEN [down |-> TRUE, attempts |-> idx, starved |-> FALSE]
    ELSE IF idx + 1 > Len(feed)
    THEN [down |-> TRUE, attempts |-> idx, starved |-> TRUE]
    ELSE IF BasicAttemptFails(feed[idx + 1])
    THEN IF BasicRetryAllowed(idx, retries)
         THEN BasicCheckWebsiteDown(feed, idx + 1, retries)
         ELSE [down |-> TRUE, attempts |-> idx + 1, starved |-> FALSE]
    ELSE [down |-> FALSE, attempts |-> idx + 1, starved |-> FALSE]

\* main.go:54-66 - one iteration of the loop: probe, run the executable
\* if DOWN, sleep for the check interval.
BasicCycle(feed, flags) ==
    LET probe == BasicCheckWebsiteDown(feed, 0, flags.retries)
    IN  [down |-> probe.down,
         attempts |-> probe.attempts,
         starved |-> probe.starved,
         elfRuns |-> IF probe.down THEN 1 ELSE 0,
         sleeps |-> <<flags.interval>>]

\* ------------------------------------------------------------------------
\* Initial state: part_000:57-59, about to call checkWebsiteDown.
\* ------------------------------------------------------------------------
Init ==
    /\ cfg \in Flags
    /\ pc = "probe"
    /\ i = 0
    /\ siteDown = FALSE
    /\ consecutiveFailures = 0
    /\ currentBackoff = cfg.initialBackoff
    /\ elfOutcome = "none"
    /\ attemptLog = <<>>
    /\ retrySleeps = <<>>
    /\ logs = <<>>
    /\ outcomes = <<>>
    /\ sleeps = <<>>
    /\ elfRuns = 0

\* ------------------------------------------------------------------------
\* checkWebsiteDown (part_000:102-137)
\* ------------------------------------------------------------------------

\* Variant: the pause and "continue" sit inside the "if verbose" block, so a
\* failed attempt is retried only under verbose logging.
Attempt_RetryOnlyVerbose(res) ==
    /\ pc = "probe"
    /\ i < cfg.retries
    /\ attemptLog' = Append(attemptLog, res)
    /\ IF AttemptFails(res)
       THEN /\ logs' = IF cfg.verbose
                       THEN Append(logs, IF res.err
                                         THEN "request_failed" ELSE "bad_status")
                       ELSE logs
            /\ IF cfg.verbose /\ RetryAllowed(i, cfg.retries)
               THEN /\ retrySleeps' = Append(retrySleeps, RetryDelay)
                    /\ i' = i + 1
                    /\ UNCHANGED <<pc, siteDown, outcomes>>
               ELSE /\ siteDown' = TRUE
                    /\ outcomes' = Append(outcomes, TRUE)
                    /\ pc' = "checked"
                    /\ UNCHANGED <<i, retrySleeps>>
       ELSE /\ siteDown' = FALSE
            /\ outcomes' = Append(outcomes, FALSE)
            /\ pc' = "checked"
            /\ UNCHANGED <<i, retrySleeps, logs>>
    /\ UNCHANGED <<cfg, consecutiveFailures, currentBackoff, elfOutcome,
                   sleeps, elfRuns>>

\* Variant: a successful attempt does not return while retries remain.
Attempt_NoShortCircuit(res) ==
    /\ pc = "probe"
    /\ i < cfg.retries
    /\ attemptLog' = Append(attemptLog, res)
    /\ logs' = IF AttemptFails(res) /\ cfg.verbose
               THEN Append(logs, IF res.err THEN "request_failed" ELSE "bad_status")
               ELSE logs
    /\ IF RetryAllowed(i, cfg.retries)
       THEN /\ retrySleeps' = IF AttemptFails(res)
                              THEN Append(retrySleeps, RetryDelay)
                              ELSE retrySleeps
            /\ i' = i + 1
            /\ UNCHANGED <<pc, siteDown, outcomes>>
       ELSE /\ siteDown' = AttemptFails(res)
            /\ outcomes' = Append(outcomes, AttemptFails(res))
            /\ pc' = "checked"
            /\ UNCHANGED <<i, retrySleeps>>
    /\ UNCHANGED <<cfg, consecutiveFailures, currentBackoff, elfOutcome,
                   sleeps, elfRuns>>

\* One iteration of the retry loop: client.Get, classification, and either
\* the 2 second pause before the next attempt or the return.
Attempt(res) ==
    /\ pc = "probe"
    /\ i < cfg.retries
    /\ attemptLog' = Append(attemptLog, res)
    /\ IF AttemptFails(res)
       THEN /\ logs' = IF cfg.verbose
                       THEN Append(logs, IF res.err
                                         THEN "request_failed" ELSE "bad_status")
                       ELSE logs
            /\ IF RetryAllowed(i, cfg.retries)
               THEN /\ retrySleeps' = Append(retrySleeps, RetryDelay)
                    /\ i' = i + 1
                    /\ UNCHANGED <<pc, siteDown, outcomes>>
               ELSE /\ siteDown' = TRUE
                    /\ outcomes' = Append(outcomes, TRUE)
                    /\ pc' = "checked"
                    /\ UNCHANGED <<i, retrySleeps>>
       ELSE /\ siteDown' = FALSE
            /\ outcomes' = Append(outcomes, FALSE)
            /\ pc' = "checked"
            /\ UNCHANGED <<i, retrySleeps, logs>>
    /\ UNCHANGED <<cfg, consecutiveFailures, currentBackoff, elfOutcome,
                   sleeps, elfRuns>>

\* part_000:136 - the loop condition is false: "return true".
LoopExhausted ==
    /\ pc = "probe"
    /\ ~(i < cfg.retries)
    /\ siteDown' = TRUE
    /\ outcomes' = Append(outcomes, TRUE)
    /\ pc' = "checked"
    /\ UNCHANGED <<cfg, i, consecutiveFailures, currentBackoff, elfOutcome,
                   attemptLog, retrySleeps, logs, sleeps, elfRuns>>

\* ------------------------------------------------------------------------
\* main, DOWN branch (part_000:65-85) and executeELF (part_000:140-154)
\* ------------------------------------------------------------------------

\* Variant: an error of the executable ends the process (log.Fatalf).
ExecuteELF_FatalOnError(outcome) ==
    /\ pc = "checked"
    /\ siteDown
    /\ elfOutcome' = outcome
    /\ elfRuns' = elfRuns + 1
    /\ logs' = Append(logs, "down") \o ElfLogs(outcome)
    /\ pc' = IF ElfError(outcome) THEN "exited" ELSE "executed"
    /\ UNCHANGED <<cfg, i, siteDown, consecutiveFailures, currentBackoff,
                   attemptLog, retrySleeps, outcomes, sleeps>>

\* Variant: the executable is run only on the first consecutive failure.
ExecuteELF_OnlyFirstFailure(outcome) ==
    /\ pc = "checked"
    /\ siteDown
    /\ IF consecutiveFailures = 0
       THEN /\ elfOutcome' = outcome
            /\ elfRuns' = elfRuns + 1
            /\ logs' = Append(logs, "down") \o ElfLogs(outcome)
       ELSE /\ outcome = "exit_zero"
            /\ logs' = Append(logs, "down")
            /\ UNCHANGED <<elfOutcome, elfRuns>>
    /\ pc' = "executed"
    /\ UNCHANGED <<cfg, i, siteDown, consecutiveFailures, currentBackoff,
                   attemptLog, retrySleeps, outcomes, sleeps>>

\* part_000:66-67 - log the DOWN, run the executable and wait for it.
ExecuteELF(outcome) ==
    /\ pc = "checked"
    /\ siteDown
    /\ elfOutcome' = outcome
    /\ elfRuns' = elfRuns + 1
    /\ logs' = Append(logs, "down") \o ElfLogs(outcome)
    /\ pc' = "executed"
    /\ UNCHANGED <<cfg, i, siteDown, consecutiveFailures, currentBackoff,
                   attemptLog, retrySleeps, outcomes, sleeps>>

\* Variant: the delay grows from the first failure on ("> 0" for "> 1").
BackoffDown_FromFirstFailure ==
    /\ pc = "executed"
    /\ consecutiveFailures' = consecutiveFailures + 1
    /\ IF consecutiveFailures + 1 > 0
       THEN /\ currentBackoff' =
                   NewBackoff(currentBackoff, cfg.backoffFactor, cfg.maxBackoff)
            /\ logs' = Append(logs, "backoff")
            /\ sleeps' = Append(sleeps, <<currentBackoff'>>)
       ELSE /\ sleeps' = Append(sleeps, <<cfg.interval>>)
            /\ UNCHANGED <<currentBackoff, logs>>
    /\ pc' = "sleeping"
    /\ UNCHANGED <<cfg, i, siteDown, elfOutcome, attemptLog, retrySleeps,
                   outcomes, elfRuns>>

\* Variant: the backoff sleep is not followed by "continue", so the sleep of
\* the check interval follows it.
BackoffDown_NoContinue ==
    /\ pc = "executed"
    /\ consecutiveFailures' = consecutiveFailures + 1
    /\ IF consecutiveFailures + 1 > 1
       THEN /\ currentBackoff' =
                   NewBackoff(currentBackoff, cfg.backoffFactor, cfg.maxBackoff)
            /\ logs' = Append(logs, "backoff")
            /\ sleeps' = Append(sleeps, <<currentBackoff', cfg.interval>>)
       ELSE /\ sleeps' = Append(sleeps, <<cfg.interval>>)
            /\ UNCHANGED <<currentBackoff, logs>>
    /\ pc' = "sleeping"
    /\ UNCHANGED <<cfg, i, siteDown, elfOutcome, attemptLog, retrySleeps,
                   outcomes, elfRuns>>

\* Variant: a failure is counted only when the executable ran without error.
BackoffDown_CountsOnElfSuccess ==
    /\ pc = "executed"
    /\ consecutiveFailures' =
           IF ElfError(elfOutcome) THEN consecutiveFailures
           ELSE consecutiveFailures + 1
    /\ IF consecutiveFailures' > 1
       THEN /\ currentBackoff' =
                   NewBackoff(currentBackoff, cfg.backoffFactor, cfg.maxBackoff)
            /\ logs' = Append(logs, "backoff")
            /\ sleeps' = Append(sleeps, <<currentBackoff'>>)
       ELSE /\ sleeps' = Append(sleeps, <<cfg.interval>>)
            /\ UNCHANGED <<currentBackoff, logs>>
    /\ pc' = "sleeping"
    /\ UNCHANGED <<cfg, i, siteDown, elfOutcome, attemptLog, retrySleeps,
                   outcomes, elfRuns>>

\* part_000:70-85 and :96 - count the failure; from the second consecutive
\* failure on grow the delay, sleep for it and continue; on the first one
\* fall through to the sleep of the check interval.
BackoffDown ==
    /\ pc = "executed"
    /\ consecutiveFailures' = consecutiveFailures + 1
    /\ IF consecutiveFailures + 1 > 1
       THEN /\ currentBackoff' =
                   NewBackoff(currentBackoff, cfg.backoffFactor, cfg.maxBackoff)
            /\ logs' = Append(logs, "backoff")
            /\ sleeps' = Append(sleeps, <<currentBackoff'>>)
       ELSE /\ sleeps' = Append(sleeps, <<cfg.interval>>)
            /\ UNCHANGED <<currentBackoff, logs>>
    /\ pc' = "sleeping"
    /\ UNCHANGED <<cfg, i, siteDown, elfOutcome, attemptLog, retrySleeps,
                   outcomes, elfRuns>>

\* ------------------------------------------------------------------------
\* main, UP branch (part_000:86-96)
\* ------------------------------------------------------------------------

\* Variant: the UP branch resets the delay but not the counter.
SiteUp_KeepsCounter ==
    /\ pc = "checked"
    /\ ~siteDown
    /\ logs' = IF cfg.verbose THEN Append(logs, "up") ELSE logs
    /\ currentBackoff' = cfg.initialBackoff
    /\ sleeps' = Append(sleeps, <<cfg.interval>>)
    /\ pc' = "sleeping"
    /\ UNCHANGED <<cfg, i, siteDown, consecutiveFailures, elfOutcome,
                   attemptLog, retrySleeps, outcomes, elfRuns>>

\* Variant: the UP branch continues with the next probe without sleeping.
SiteUp_NoSleep ==
    /\ pc = "checked"
    /\ ~siteDown
    /\ consecutiveFailures' = 0
    /\ currentBackoff' = cfg.initialBackoff
    /\ pc' = "probe"
    /\ i' = 0
    /\ elfOutcome' = "none"
    /\ attemptLog' = <<>>
    /\ retrySleeps' = <<>>
    /\ logs' = <<>>
    /\ sleeps' = Append(sleeps, <<>>)
    /\ UNCHANGED <<cfg, siteDown, outcomes, elfRuns>>

\* Variant: the UP branch resets the counter but not the delay.
SiteUp_KeepsBackoff ==
    /\ pc = "checked"
    /\ ~siteDown
    /\ logs' = IF cfg.verbose THEN Append(logs, "up") ELSE logs
    /\ consecutiveFailures' = 0
    /\ sleeps' = Append(sleeps, <<cfg.interval>>)
    /\ pc' = "sleeping"
    /\ UNCHANGED <<cfg, i, siteDown, currentBackoff, elfOutcome, attemptLog,
                   retrySleeps, outcomes, elfRuns>>

SiteUp ==
    /\ pc = "checked"
    /\ ~siteDown
    /\ logs' = IF cfg.verbose THEN Append(logs, "up") ELSE logs
    /\ consecutiveFailures' = 0
    /\ currentBackoff' = cfg.initialBackoff
    /\ sleeps' = Append(sleeps, <<cfg.interval>>)
    /\ pc' = "sleeping"
    /\ UNCHANGED <<cfg, i, siteDown, elfOutcome, attemptLog, retrySleeps,
                   outcomes, elfRuns>>

\* ------------------------------------------------------------------------
\* time.Sleep returns (part_000:83-84 or :96-97): the next iteration of the
\* loop calls checkWebsiteDown again.
\* ------------------------------------------------------------------------
WakeUp ==
    /\ pc = "sleeping"
    /\ Len(sleeps) < MaxCycles
    /\ pc' = "probe"
    /\ i' = 0
    /\ elfOutcome' = "none"
    /\ attemptLog' = <<>>
    /\ retrySleeps' = <<>>
    /\ logs' = <<>>
    /\ UNCHANGED <<cfg, siteDown, consecutiveFailures, currentBackoff,
                   outcomes, sleeps, elfRuns>>

Next ==
    \/ \E res \in AttemptResults : Attempt(res)
    \/ LoopExhausted
    \/ \E outcome \in ElfOutcomes : ExecuteELF(outcome)
    \/ BackoffDown
    \/ SiteUp
    \/ WakeUp

Spec == Init /\ [][Next]_vars

\* The loop under the scheduling of a sequential program whose blocking
\* calls (client.Get, cmd.CombinedOutput, time.Sleep) all return: a step
\* that is possible is eventually taken.
\* It is explored from the flags without verbose logging and with a retry
\* count of 0 or 2, and every backoff setting.
LiveInit == Init /\ ~cfg.verbose /\ cfg.retries \in {0, 2}

LiveSpec == LiveInit /\ [][Next]_vars /\ WF_vars(Next)

TypeOK ==
    /\ cfg \in Flags
    /\ pc \in {"probe", "checked", "executed", "sleeping"}
    /\ i \in 0..MaxRetries
    /\ siteDown \in BOOLEAN
    /\ consecutiveFailures \in 0..MaxCycles
    /\ elfOutcome \in ElfOutcomes \cup {"none"}
    /\ elfRuns \in 0..MaxCycles

\* ------------------------------------------------------------------------
\* Vocabulary of the properties, stated without the operators above
\* ------------------------------------------------------------------------
FactorAtLeastOne == cfg.backoffFactor[1] >= cfg.backoffFactor[2]

\* The integer nearest to p/d in the direction of zero.
QuotientTowardZero(p, d) ==
    LET a == IF p >= 0 THEN p ELSE -p
        q == a \div d
    IN  IF p >= 0 THEN q ELSE -q

MinOf(a, b) == IF a <= b THEN a ELSE b

\* An attempt is good when it has no transport error and a status in [200,400).
GoodAttempt(res) == ~res.err /\ res.status \in 200..399

\* The number of DOWN cycles in a sequence of outcomes.
RECURSIVE DownCount(_)
DownCount(os) ==
    IF os = <<>> THEN 0
    ELSE (IF os[Len(os)] THEN 1 ELSE 0) + DownCount(SubSeq(os, 1, Len(os) - 1))

\* Cycle k is the second or a later one of a run of consecutive DOWN cycles.
LaterDown(k) == k >= 2 /\ outcomes[k] /\ outcomes[k - 1]

\* A step of main from the return of executeELF to the inter-cycle sleep.
DownUpdateStep == pc = "executed" /\ pc' = "sleeping"

ScenarioC ==
    /\ cfg.interval = 60
    /\ cfg.initialBackoff = 60
    /\ cfg.backoffFactor = <<2, 1>>
    /\ cfg.maxBackoff = 300

\* ------------------------------------------------------------------------
\* C1 - After any cycle whose outcome is UP, consecutiveFailures is 0 and
\* currentBackoff is the initial backoff, whatever they were before.
\* ------------------------------------------------------------------------
C1_UpResetsBackoff ==
    (pc = "sleeping" /\ ~siteDown) =>
        (consecutiveFailures = 0 /\ currentBackoff = cfg.initialBackoff)

\* An UP cycle that follows a DOWN cycle whose delay was clamped to the
\* maximum 8 (from 10) after growing from the initial value 5.
C1_Witness ==
    /\ pc = "sleeping"
    /\ ~siteDown
    /\ Len(sleeps) >= 4
    /\ LaterDown(Len(sleeps) - 1)
    /\ sleeps[Len(sleeps) - 1] = <<cfg.maxBackoff>>
    /\ cfg.initialBackoff = 5
    /\ cfg.maxBackoff = 8
    /\ cfg.backoffFactor[1] > cfg.backoffFactor[2]

\* ------------------------------------------------------------------------
\* C2 (as amended) - On a DOWN cycle entered with consecutiveFailures >= 1
\* the new delay is min(trunc(delay * factor), maximum), the product being
\* truncated toward zero; it is >= the old delay whenever factor >= 1 and
\* 0 <= delay <= maximum.
\* ------------------------------------------------------------------------
C2_GrowthTruncated ==
    [][(DownUpdateStep /\ consecutiveFailures >= 1) =>
        /\ currentBackoff' =
              MinOf(QuotientTowardZero(currentBackoff * cfg.backoffFactor[1],
                                       cfg.backoffFactor[2]),
                    cfg.maxBackoff)
        /\ (FactorAtLeastOne /\ 0 <= currentBackoff
                /\ currentBackoff <= cfg.maxBackoff)
              => currentBackoff' >= currentBackoff]_vars

\* A second DOWN under factor 1.5: 5 * 1.5 = 7.5 became 7.
C2_Witness ==
    /\ pc = "sleeping"
    /\ consecutiveFailures = 2
    /\ cfg.backoffFactor = <<3, 2>>
    /\ cfg.initialBackoff = 5
    /\ currentBackoff = 7

\* C2 as originally stated: the new delay is exactly min(delay * factor,
\* maximum) and never below the old delay when factor >= 1.
C2_Original ==
    [][(DownUpdateStep /\ consecutiveFailures >= 1) =>
        /\ currentBackoff' * cfg.backoffFactor[2] =
              MinOf(currentBackoff * cfg.backoffFactor[1],
                    cfg.maxBackoff * cfg.backoffFactor[2])
        /\ FactorAtLeastOne => currentBackoff' >= currentBackoff]_vars

\* ------------------------------------------------------------------------
\* C3 (as amended) - With factor >= 1 and 0 <= initial <= maximum, in every
\* reachable state initial <= currentBackoff <= maximum.
\* ------------------------------------------------------------------------
C3_DelayWithinBounds ==
    (FactorAtLeastOne /\ 0 <= cfg.initialBackoff
        /\ cfg.initialBackoff <= cfg.maxBackoff) =>
        (cfg.initialBackoff <= currentBackoff /\ currentBackoff <= cfg.maxBackoff)

\* The delay has grown past the maximum and was capped (5, 7, 10 -> 8, 8).
C3_Witness ==
    /\ pc = "sleeping"
    /\ cfg.initialBackoff = 5
    /\ cfg.backoffFactor = <<3, 2>>
    /\ cfg.maxBackoff = 8
    /\ consecutiveFailures = 4
    /\ currentBackoff = 8

\* C3 as originally stated: factor >= 1 and initial <= maximum suffice.
C3_Original ==
    (FactorAtLeastOne /\ cfg.initialBackoff <= cfg.maxBackoff) =>
        (cfg.initialBackoff <= currentBackoff /\ currentBackoff <= cfg.maxBackoff)

C5_UpAtFirstGoodAttempt ==
    \A k \in 1..Len(attemptLog) :
        GoodAttempt(attemptLog[k]) =>
            (k = Len(attemptLog) /\ pc # "probe" /\ ~siteDown)

\* The shape of Scenario A: transport error, bad status, 200 with
\* retries = 3; the outcome is UP and the executable is not run.
C5_Witness ==
    /\ pc = "sleeping"
    /\ cfg.retries = 3
    /\ attemptLog = <<TransportError, [err |-> FALSE, status |-> 400],
                      [err |-> FALSE, status |-> 200]>>
    /\ ~siteDown
    /\ elfOutcome = "none"

\* A good attempt that is not the last allowed one ends the probe.
C5_WitnessEarly ==
    /\ pc = "checked"
    /\ cfg.retries = 3
    /\ Len(attemptLog) = 1
    /\ ~siteDown

\* ------------------------------------------------------------------------
\* C6 - The remediation executable is run exactly once in a DOWN cycle and
\* not at all in an UP cycle: the number of runs equals the number of DOWN
\* cycles.
\* ------------------------------------------------------------------------
C6_OneRunPerDownCycle ==
    /\ pc \in {"executed", "sleeping"} =>
          /\ elfRuns = DownCount(outcomes)
          /\ (elfOutcome # "none") <=> siteDown
    /\ pc = "checked" =>
          /\ elfRuns = DownCount(SubSeq(outcomes, 1, Len(outcomes) - 1))
          /\ elfOutcome = "none"
    /\ pc = "probe" => (elfRuns = DownCount(outcomes) /\ elfOutcome = "none")

\* Scenario B followed by more cycles: three DOWN cycles and an UP one.
C6_Witness ==
    /\ pc = "sleeping"
    /\ cfg.retries = 2
    /\ Len(outcomes) = 4
    /\ DownCount(outcomes) = 3
    /\ elfRuns = 3

\* ------------------------------------------------------------------------
\* C7 - Each cycle ends with exactly one inter-cycle sleep: the check
\* interval after an UP cycle and after the first consecutive DOWN cycle,
\* the freshly updated currentBackoff after a later consecutive DOWN cycle;
\* with interval 60, initial 60, factor 2, maximum 300, four DOWN cycles
\* sleep 60, 120, 240, 300.
\* ------------------------------------------------------------------------
C7_OneSleepPerCycle ==
    /\ Len(sleeps) = (IF pc = "sleeping" THEN Len(outcomes)
                      ELSE IF pc = "probe" THEN Len(outcomes)
                      ELSE Len(outcomes) - 1)
    /\ \A k \in 1..Len(sleeps) :
          /\ Len(sleeps[k]) = 1
          /\ ~LaterDown(k) => sleeps[k] = <<cfg.interval>>
          /\ (LaterDown(k) /\ k = Len(sleeps)) => sleeps[k] = <<currentBackoff>>
    /\ (ScenarioC /\ Len(sleeps) >= 4 /\ \A k \in 1..4 : outcomes[k]) =>
          SubSeq(sleeps, 1, 4) = <<<<60>>, <<120>>, <<240>>, <<300>>>>

\* Scenario C: four DOWN cycles.
C7_Witness ==
    /\ ScenarioC
    /\ pc = "sleeping"
    /\ outcomes = <<TRUE, TRUE, TRUE, TRUE>>
    /\ sleeps = <<<<60>>, <<120>>, <<240>>, <<300>>>>

\* ------------------------------------------------------------------------
\* C8 - When the executable is launched and exits with a non-zero status,
\* executeELF still prints its captured output.
\* ------------------------------------------------------------------------
C8_OutputPrintedOnNonZeroExit ==
    elfOutcome = "exit_nonzero" =>
        \E k \in 1..Len(logs) : logs[k] = "elf_output"

\* ------------------------------------------------------------------------
\* C9 - The result of executeELF has no effect on the backoff state or on
\* the continuation of the loop: executeELF leaves counter and delay alone,
\* and the update after it depends only on the counter, the delay and the
\* flags, and is followed by the sleep.
\* ------------------------------------------------------------------------
C9_RemediationResultIgnored ==
    [][/\ (pc = "checked" /\ siteDown) =>
              /\ pc' = "executed"
              /\ consecutiveFailures' = consecutiveFailures
              /\ currentBackoff' = currentBackoff
       /\ pc = "executed" =>
              /\ pc' = "sleeping"
              /\ consecutiveFailures' = consecutiveFailures + 1
              /\ currentBackoff' =
                    IF consecutiveFailures >= 1
                    THEN MinOf(QuotientTowardZero(
                                   currentBackoff * cfg.backoffFactor[1],
                                   cfg.backoffFactor[2]),
                               cfg.maxBackoff)
                    ELSE currentBackoff
              /\ sleeps'[Len(sleeps')] =
                    IF consecutiveFailures >= 1 THEN <<currentBackoff'>>
                    ELSE <<cfg.interval>>]_vars

\* A second consecutive DOWN cycle whose executable failed to launch has
\* grown the delay and gone to sleep.
C9_Witness ==
    /\ pc = "sleeping"
    /\ elfOutcome = "launch_failure"
    /\ consecutiveFailures = 2
    /\ cfg.initialBackoff = 60
    /\ currentBackoff = 120

\* ------------------------------------------------------------------------
\* C10 - For every accepted retry count, 0 and negative values included, a
\* probe makes at least one HTTP attempt before it returns.
\* ------------------------------------------------------------------------
C10_AtLeastOneAttempt ==
    pc # "probe" => Len(attemptLog) >= 1

\* ------------------------------------------------------------------------
\* C11 - The loop has no terminal state: when every attempt and every run
\* of the executable returns, from every reachable state a next probe is
\* eventually started, whatever the outcomes, errors and delays (stated for
\* the probes inside the bound MaxCycles).
\* ------------------------------------------------------------------------
C11_NextProbeStarts ==
    /\ (pc = "probe") ~> (pc = "checked")
    /\ (pc # "probe" /\ Len(outcomes) < MaxCycles) ~> (pc = "probe")

\* A probe starts after two DOWN cycles whose executable failed and after a
\* sleep of a negative delay.
C11_Witness ==
    /\ pc = "probe"
    /\ attemptLog = <<>>
    /\ Len(outcomes) >= 2
    /\ consecutiveFailures >= 2
    /\ currentBackoff < 0

\* ------------------------------------------------------------------------
\* C12 - The loop is entered only with factor >= 1, initial-backoff <=
\* max-backoff and retries >= 1.
\* ------------------------------------------------------------------------
C12_LoopConfigValid ==
    /\ FactorAtLeastOne
    /\ cfg.initialBackoff <= cfg.maxBackoff
    /\ cfg.retries >= 1

\* ------------------------------------------------------------------------
\* C13 - Within a probe there is one wait of 2 seconds after each failed
\* attempt that is not the last allowed one and no other wait: a probe
\* failing all n = retries attempts waits n - 1 times; the length does not
\* depend on the backoff state.
\* ------------------------------------------------------------------------
C13_RetryWaits ==
    /\ \A k \in 1..Len(retrySleeps) : retrySleeps[k] = 2
    /\ Len(retrySleeps) =
          Cardinality({k \in 1..Len(attemptLog) :
                          ~GoodAttempt(attemptLog[k]) /\ k < cfg.retries})
    /\ (pc # "probe" /\ siteDown /\ cfg.retries >= 1) =>
          Len(retrySleeps) = cfg.retries - 1

\* A probe that failed three attempts out of three, entered with a grown
\* delay, waited twice.
C13_Witness ==
    /\ pc = "checked"
    /\ siteDown
    /\ cfg.retries = 3
    /\ retrySleeps = <<2, 2>>
    /\ currentBackoff > cfg.initialBackoff

\* A probe whose second attempt was good waited once.
C13_WitnessUp ==
    /\ pc = "checked"
    /\ ~siteDown
    /\ Len(attemptLog) = 2
    /\ retrySleeps = <<2>>

\* ------------------------------------------------------------------------
\* C14 - At the end of every cycle consecutiveFailures is the number of
\* uninterrupted DOWN cycles since the last UP cycle (or since startup):
\* it starts at 0, grows by 1 on every DOWN cycle and is never negative.
\* ------------------------------------------------------------------------
RECURSIVE TrailingDowns(_)
TrailingDowns(os) ==
    IF os = <<>> \/ ~os[Len(os)] THEN 0
    ELSE 1 + TrailingDowns(SubSeq(os, 1, Len(os) - 1))

C14_CounterIsDownRun ==
    /\ consecutiveFailures >= 0
    /\ pc \in {"sleeping", "probe"} =>
          consecutiveFailures = TrailingDowns(outcomes)
    /\ pc \in {"checked", "executed"} =>
          consecutiveFailures =
              TrailingDowns(SubSeq(outcomes, 1, Len(outcomes) - 1))

\* DOWN, UP, DOWN, DOWN: the counter is 2 at the end of the fourth cycle.
C14_Witness ==
    /\ pc = "sleeping"
    /\ outcomes = <<TRUE, FALSE, TRUE, TRUE>>
    /\ consecutiveFailures = 2

\* ------------------------------------------------------------------------
\* C15 - Every cycle is ordered probe, remediation only if DOWN, backoff
\* update, sleep: attempts are made only while probing, the executable is
\* run only right after a probe returned DOWN, the state is updated only
\* after that and before the sleep, and a probe starts only after a sleep.
\* ------------------------------------------------------------------------
C15_CycleOrder ==
    [][/\ pc = "probe" => pc' \in {"probe", "checked"}
       /\ pc = "checked" => pc' = (IF siteDown THEN "executed" ELSE "sleeping")
       /\ pc = "executed" => pc' = "sleeping"
       /\ pc = "sleeping" => (pc' = "probe" /\ attemptLog' = <<>>)
       /\ Len(attemptLog') > Len(attemptLog) => pc = "probe"
       /\ elfRuns' # elfRuns => (pc = "checked" /\ siteDown)
       /\ <<consecutiveFailures, currentBackoff>>' #
             <<consecutiveFailures, currentBackoff>> =>
             (pc = (IF siteDown THEN "executed" ELSE "checked")
                 /\ pc' = "sleeping")
       /\ sleeps' # sleeps =>
             (pc' = "sleeping" /\ Len(sleeps') = Len(outcomes)
                 /\ Len(sleeps'[Len(sleeps')]) = 1)]_vars

\* A probe of a third cycle is under way after a DOWN and an UP cycle.
C15_Witness ==
    /\ pc = "probe"
    /\ Len(attemptLog) = 1
    /\ outcomes = <<TRUE, FALSE>>
    /\ Len(sleeps) = 2
    /\ elfRuns = 1

\* ------------------------------------------------------------------------
\* C16 - The verbosity flag affects only log events: classification,
\* attempt count, remediation runs, backoff state and sleep durations are
\* what the attempt results and the other flags alone determine, so runs
\* with verbose on and off agree on them.
\* ------------------------------------------------------------------------
RECURSIVE DelayAfterRun(_)
DelayAfterRun(n) ==
    IF n <= 1 THEN cfg.initialBackoff
    ELSE MinOf(QuotientTowardZero(DelayAfterRun(n - 1) * cfg.backoffFactor[1],
                                  cfg.backoffFactor[2]),
               cfg.maxBackoff)

DownRunAt(k) == TrailingDowns(SubSeq(outcomes, 1, k))

AttemptBudget == IF cfg.retries > 0 THEN cfg.retries ELSE 0

NoGoodAttempt == \A k \in 1..Len(attemptLog) : ~GoodAttempt(attemptLog[k])

C16_VerboseOnlyLogs ==
    /\ pc = "probe" =>
          /\ NoGoodAttempt
          /\ Len(attemptLog) < cfg.retries \/ attemptLog = <<>>
    /\ pc # "probe" =>
          /\ siteDown = NoGoodAttempt
          /\ outcomes[Len(outcomes)] = siteDown
          /\ Len(attemptLog) =
                (IF \E k \in 1..AttemptBudget :
                        k <= Len(attemptLog) /\ GoodAttempt(attemptLog[k])
                 THEN CHOOSE k \in 1..AttemptBudget :
                        k <= Len(attemptLog) /\ GoodAttempt(attemptLog[k])
                 ELSE AttemptBudget)
    /\ pc \in {"sleeping", "probe"} =>
          /\ elfRuns = DownCount(outcomes)
          /\ consecutiveFailures = DownRunAt(Len(outcomes))
          /\ currentBackoff = DelayAfterRun(consecutiveFailures)
          /\ Len(sleeps) = Len(outcomes)
          /\ sleeps # <<>> =>
                sleeps[Len(sleeps)] =
                    IF consecutiveFailures >= 2
                    THEN <<DelayAfterRun(consecutiveFailures)>>
                    ELSE <<cfg.interval>>

\* A verbose run at the end of a cycle whose probe logged a failed attempt
\* and the UP.
C16_Witness ==
    /\ cfg.verbose
    /\ pc = "sleeping"
    /\ logs = <<"bad_status", "up">>
    /\ Len(attemptLog) = 2
    /\ Len(outcomes) = 3

\* The same cycle of a run without verbose logging.
C16_WitnessQuiet ==
    /\ ~cfg.verbose
    /\ pc = "sleeping"
    /\ logs = <<>>
    /\ Len(attemptLog) = 2
    /\ Len(outcomes) = 3

\* ------------------------------------------------------------------------
\* C17 - In every reachable state consecutiveFailures <= 1 implies
\* currentBackoff = initial-backoff: the first DOWN after startup or after
\* an UP leaves the delay unchanged.
\* ------------------------------------------------------------------------
C17_InitialDelayUntilSecondDown ==
    consecutiveFailures <= 1 => currentBackoff = cfg.initialBackoff

\* The first DOWN cycle after two DOWN cycles and an UP one, under a factor
\* that had grown the delay.
C17_Witness ==
    /\ pc = "sleeping"
    /\ outcomes = <<TRUE, TRUE, FALSE, TRUE>>
    /\ consecutiveFailures = 1
    /\ sleeps[2] # <<cfg.initialBackoff>>
    /\ currentBackoff = cfg.initialBackoff

\* ------------------------------------------------------------------------
\* C18 (as amended) - With factor > 1, 1 <= initial <= maximum and
\* initial * (factor - 1) >= 1, in a run of DOWN cycles currentBackoff
\* grows strictly on every cycle from the second on until it equals the
\* maximum, has reached it after at most maximum - initial such cycles,
\* and then stays there.
\* ------------------------------------------------------------------------
FactorAboveOne == cfg.backoffFactor[1] > cfg.backoffFactor[2]

FirstStepGrows ==
    cfg.initialBackoff * (cfg.backoffFactor[1] - cfg.backoffFactor[2])
        >= cfg.backoffFactor[2]

C18_GrowsToMaximum ==
    /\ [](   (/\ FactorAboveOne /\ FirstStepGrows
              /\ 1 <= cfg.initialBackoff /\ cfg.initialBackoff <= cfg.maxBackoff
              /\ consecutiveFailures >= 1)
          => currentBackoff >=
                MinOf(cfg.initialBackoff + consecutiveFailures - 1,
                      cfg.maxBackoff))
    /\ [][(/\ FactorAboveOne /\ FirstStepGrows
           /\ 1 <= cfg.initialBackoff /\ cfg.initialBackoff <= cfg.maxBackoff
           /\ DownUpdateStep /\ consecutiveFailures >= 1)
          => IF currentBackoff < cfg.maxBackoff
             THEN currentBackoff' > currentBackoff
             ELSE currentBackoff' = cfg.maxBackoff]_vars

\* Four DOWN cycles from 5 with factor 1.5 and maximum 8: 7, 8, 8.
C18_Witness ==
    /\ pc = "sleeping"
    /\ cfg.initialBackoff = 5
    /\ cfg.backoffFactor = <<3, 2>>
    /\ cfg.maxBackoff = 8
    /\ sleeps = <<<<cfg.interval>>, <<7>>, <<8>>, <<8>>>>

\* C18 as originally stated: factor > 1 and 1 <= initial <= maximum suffice.
C18_Original ==
    [][(/\ FactorAboveOne
        /\ 1 <= cfg.initialBackoff /\ cfg.initialBackoff <= cfg.maxBackoff
        /\ DownUpdateStep /\ consecutiveFailures >= 1)
       => IF currentBackoff < cfg.maxBackoff
          THEN currentBackoff' > currentBackoff
          ELSE currentBackoff' = cfg.maxBackoff]_vars

\* ------------------------------------------------------------------------
\* C19 - Fed the attempt results of a cycle of the backoff monitor, the
\* monitor without backoff makes the same attempts, returns the same
\* classification and runs the executable as often; both sleep once, and
\* for the same time when factor = 1 and initial = maximum = interval.
\* ------------------------------------------------------------------------
C19_SameAsBasicMonitor ==
    pc # "probe" =>
        LET basic == BasicCycle(attemptLog, cfg)
        IN  /\ ~basic.starved
            /\ basic.attempts = Len(attemptLog)
            /\ basic.down = siteDown
            /\ pc \in {"executed", "sleeping"} =>
                  basic.elfRuns = (IF elfOutcome = "none" THEN 0 ELSE 1)
            /\ pc = "sleeping" =>
                  /\ Len(sleeps[Len(sleeps)]) = Len(basic.sleeps)
                  /\ (/\ cfg.backoffFactor = <<1, 1>>
                      /\ cfg.initialBackoff = cfg.interval
                      /\ cfg.maxBackoff = cfg.interval)
                     => sleeps[Len(sleeps)] = basic.sleeps

\* Third consecutive DOWN cycle with factor 1 and initial = maximum =
\* interval: the backoff sleep equals the interval.
C19_Witness ==
    /\ pc = "sleeping"
    /\ cfg.backoffFactor = <<1, 1>>
    /\ cfg.initialBackoff = cfg.interval
    /\ cfg.maxBackoff = cfg.interval
    /\ cfg.retries = 3
    /\ consecutiveFailures = 3
    /\ sleeps[3] = <<cfg.interval>>
====
